---- MODULE Spec2Model ----
(***************************************************************************)
(* Model of pipelineopt/estimator.py: the Classifier object, its fit       *)
(* search loop and best-of-N selection, and the prediction interface.      *)
(*                                                                         *)
(* The external collaborators (walker, eval of the rendered code, the      *)
(* candidate's fit/predict, the scoring function, sklearn's shuffle) are   *)
(* modelled by their interface: each call either returns one of a small    *)
(* set of values or raises.                                                *)
(***************************************************************************)
EXTENDS Integers, Sequences, FiniteSets, TLC

\* ------------------------------------------------------------------ bounds
MaxIter == 2        \* largest nb_iter given to the constructor
MaxFits == 2        \* fit calls per Classifier
MaxWalks == 4       \* walks of the walker over all fit calls
MaxRows == 1        \* rows of X in a fit call of Spec
MaxScore == 1       \* scores are 0..MaxScore
SplitRows == 5      \* rows of X in a fit call of SpecSplit

\* ------------------------------------------------------- Python's None
None == [isNone |-> TRUE]
Some(v) == [value |-> v]

\* ------------------------------------------- IEEE-754 double arithmetic
\* A non-negative double is mant * 2^exp with mant < 2^53; mant is kept as
\* four limbs (m0 lowest, 16 bits each, m3 the top 5 bits).
Double(m3, m2, m1, m0, e) == [m3 |-> m3, m2 |-> m2, m1 |-> m1, m0 |-> m0, exp |-> e]

Ratio_0 == Double(0, 0, 0, 0, 0)                      \* 0.0 (and the default 0)
Ratio_0_1 == Double(25, 39321, 39321, 39322, -56)     \* 0.1 = 0x1.999999999999ap-4
Ratio_0_5 == Double(16, 0, 0, 0, -53)                 \* 0.5
Ratio_0_6 == Double(19, 13107, 13107, 13107, -53)     \* 0.6 = 0x1.3333333333333p-1
Ratio_1_0 == Double(16, 0, 0, 0, -52)                 \* 1.0
Ratio_1_5 == Double(24, 0, 0, 0, -52)                 \* 1.5

Ratios == {Ratio_0, Ratio_0_1, Ratio_0_5, Ratio_0_6, Ratio_1_0, Ratio_1_5}

\* the k low bits of v, lowest first (k <= 31)
NatBits(v, k) == [j \in 1..k |-> (v \div 2^(j - 1)) % 2]

\* the value of a bit sequence (lowest first)
RECURSIVE BitsNat(_)
BitsNat(bits) == IF bits = <<>> THEN 0 ELSE Head(bits) + 2 * BitsNat(Tail(bits))

\* drop the zero bits at the high end
Trim(bits) ==
    LET ones == {j \in 1..Len(bits) : bits[j] = 1}
    IN  IF ones = {} THEN <<>>
        ELSE SubSeq(bits, 1, CHOOSE j \in ones : \A k \in ones : k <= j)

\* the exact product n * mantissa of d as bits, limb by limb (n < 2^15)
MulBits(d, n) ==
    LET t0 == n * d.m0
        t1 == n * d.m1 + t0 \div 65536
        t2 == n * d.m2 + t1 \div 65536
        t3 == n * d.m3 + t2 \div 65536
    IN  Trim(NatBits(t0 % 65536, 16) \o NatBits(t1 % 65536, 16)
             \o NatBits(t2 % 65536, 16) \o NatBits(t3, 31))

\* bits + 1
RECURSIVE IncBits(_)
IncBits(bits) ==
    IF bits = <<>> THEN <<1>>
    ELSE IF Head(bits) = 0 THEN <<1>> \o Tail(bits)
    ELSE <<0>> \o IncBits(Tail(bits))

\* round an exact integer (its bits, no leading zeros) to 53 significant
\* bits, ties to even
RoundToDouble(exact) ==
    LET bits == exact
        drop == Len(bits) - 53
    IN  IF drop <= 0 THEN bits
        ELSE LET kept   == SubSeq(bits, drop + 1, Len(bits))
                 guard  == bits[drop]
                 sticky == \E j \in 1..(drop - 1) : bits[j] = 1
                 up     == guard = 1 /\ (sticky \/ kept[1] = 1)
             IN  [j \in 1..drop |-> 0] \o (IF up THEN IncBits(kept) ELSE kept)

\* int(n * d): the double product of float(n) and d, truncated toward zero
IntOfProduct(n, d) ==
    LET prod == RoundToDouble(MulBits(d, n))
    IN  IF d.exp >= 0 THEN BitsNat([j \in 1..d.exp |-> 0] \o prod)
        ELSE IF -d.exp >= Len(prod) THEN 0
        ELSE BitsNat(SubSeq(prod, 1 - d.exp, Len(prod)))

\* d > 0
Positive(d) == d.m3 + d.m2 + d.m1 + d.m0 > 0

\* ------------------------------------------------------ Python slicing
\* s[lo:hi] with Python's index normalisation (negative counts from the end)
SliceIndex(k, n) == IF k < 0 THEN (IF k + n < 0 THEN 0 ELSE k + n)
                    ELSE IF k > n THEN n ELSE k

PySlice(s, lo, hi) == SubSeq(s, SliceIndex(lo, Len(s)) + 1, SliceIndex(hi, Len(s)))

\* ------------------------------------------------------------- the data
\* A row is identified by a number; X holds the rows and y their labels.
LabelOf(row) == row % 2
Rows(n) == [k \in 1..n |-> k]
Labels(rows) == [k \in 1..Len(rows) |-> LabelOf(rows[k])]

\* sklearn.utils.shuffle(X, y, random_state=...): one permutation, applied
\* to X and y alike; which one the seed yields is left open.
Shuffles(n) == {p \in [1..n -> 1..n] : \A a, b \in 1..n : p[a] = p[b] => a = b}
Permute(s, p) == [k \in 1..Len(s) |-> s[p[k]]]

\* explicit validation data a caller may pass (X_valid, y_valid)
ValidRows == {<<9>>}
ValidArgs == {<<None, None>>}
             \cup {<<Some(v), Some(Labels(v))>> : v \in ValidRows}
             \cup {<<Some(v), None>> : v \in ValidRows}
             \cup {<<None, Some(Labels(v))>> : v \in ValidRows}

\* ------------------------------------------------ external collaborators
\* the derivations the walker can produce (terminals of one walk)
Derivations == { <<"make_pipeline(", "SVC()", ")">>,
                 <<"make_pipeline(", "PCA()", ",", "SVC()", ")">> }

\* grammaropt.grammar.as_str: the terminals joined into one expression
RECURSIVE as_str(_)
as_str(terminals) ==
    IF terminals = <<>> THEN "" ELSE Head(terminals) \o as_str(Tail(terminals))

\* values the scoring function can return
Scores == 0..MaxScore

\* numpy.argmax over a non-empty list: the first index of the largest value
\* (variant: the last index of the largest value)
RECURSIVE ArgMaxFrom_LastMax(_, _, _)
ArgMaxFrom_LastMax(s, k, best) ==
    IF k > Len(s) THEN best
    ELSE ArgMaxFrom_LastMax(s, k + 1, IF s[k] >= s[best] THEN k ELSE best)

RECURSIVE ArgMaxFrom(_, _, _)
ArgMaxFrom(s, k, best) ==
    IF k > Len(s) THEN best
    ELSE ArgMaxFrom(s, k + 1, IF s[k] > s[best] THEN k ELSE best)

argmax(s) == ArgMaxFrom(s, 2, 1)

\* (variants: the element is not recorded; the element is put in front)
append_Drop(list, x) == list
append_Front(list, x) == <<x>> \o list

\* list.append
append(list, x) == Append(list, x)

\* range(self.nb_iter) is exhausted
LoopDone(k, n) == k >= n

\* ------------------------------------------------------------------ state
VARIABLES
    nb_iter, valid_ratio, walker,           \* constructor parameters
    estimators_, scores_, codes_,           \* the candidate sequence
    best_score_, best_estimator_, best_estimator_code_,
    pc,                                     \* "idle", or "loop" inside fit
    i, X, y, X_train, y_train, X_valid, y_valid,  \* fit's frame
    op, outcome,                            \* the last call and how it ended
    call,                                   \* the running fit call: arguments and entry state
    step,                                   \* what the last loop iteration did
    fits                                    \* fit calls made so far

object == <<nb_iter, valid_ratio, walker, estimators_, scores_, codes_,
            best_score_, best_estimator_, best_estimator_code_>>
frame == <<i, X, y, X_train, y_train, X_valid, y_valid>>
vars == <<object, pc, frame, op, outcome, call, step, fits>>

NoCall == [X_valid |-> None, y_valid |-> None,
           len |-> 0, walks |-> 0, entered |-> FALSE,
           trained |-> 0, failed |-> 0]

\* Classifier.__init__
InitWith(iters, ratios) ==
    /\ nb_iter \in iters
    /\ valid_ratio \in ratios
    /\ walker = [walks |-> 0, terminals |-> <<>>]
    /\ estimators_ = <<>>
    /\ scores_ = <<>>
    /\ codes_ = <<>>
    /\ best_score_ = None
    /\ best_estimator_ = None
    /\ best_estimator_code_ = None
    /\ pc = "idle"
    /\ i = 0
    /\ X = None /\ y = None
    /\ X_train = None /\ y_train = None
    /\ X_valid = None /\ y_valid = None
    /\ op = "none"
    /\ outcome = "none"
    /\ call = NoCall
    /\ step = "none"
    /\ fits = 0

Init == InitWith(0..MaxIter, {Ratio_0, Ratio_0_5})

\* the frame is gone once fit has returned or raised
DropFrame ==
    /\ i' = 0
    /\ X' = None /\ y' = None
    /\ X_train' = None /\ y_train' = None
    /\ X_valid' = None /\ y_valid' = None

\* (variant: the ratio's share goes to the training part)
NbTrain_Swapped(n, ratio) == IntOfProduct(n, ratio)

\* fit, line 89: nb_train = len(X) - int(len(X) * self.valid_ratio)
NbTrain(n, ratio) == n - IntOfProduct(n, ratio)

\* fit, lines 90-93: the training prefix and the validation suffix
Split(sX, sy, nb_train) ==
    [X |-> sX, y |-> sy,
     X_train |-> PySlice(sX, 0, nb_train),
     y_train |-> PySlice(sy, 0, nb_train),
     X_valid |-> Some(PySlice(sX, nb_train, Len(sX))),
     y_valid |-> Some(PySlice(sy, nb_train, Len(sy)))]

\* fit, lines 86-101: resolution of the training and validation data
Resolve(aX, ay, aXv, ayv, perm) ==
    IF aXv = None /\ ayv = None
    THEN IF Positive(valid_ratio)
         THEN CHOOSE r \in { Split(Permute(aX, perm), Permute(ay, perm), nb_train) :
                                nb_train \in {NbTrain(Len(aX), valid_ratio)} } : TRUE
         ELSE [X |-> aX, y |-> ay, X_train |-> aX, y_train |-> ay,
               X_valid |-> Some(aX), y_valid |-> Some(ay)]
    ELSE [X |-> aX, y |-> ay, X_train |-> aX, y_train |-> ay,
          X_valid |-> aXv, y_valid |-> ayv]

\* (variant: one of the two is enough)
AssertHolds_Either(xv, yv) == xv # None \/ yv # None

\* fit, line 103: assert X_valid is not None and y_valid is not None
AssertHolds(xv, yv) == xv # None /\ yv # None

\* fit, lines 85-105: entry, data resolution and the assertion
FitBegin(aX, aXv, ayv) ==
    /\ pc = "idle"
    /\ fits < MaxFits
    /\ \E perm \in (IF aXv = None /\ ayv = None /\ Positive(valid_ratio)
                    THEN Shuffles(Len(aX)) ELSE {[k \in 1..Len(aX) |-> k]}) :
         \E r \in {Resolve(aX, Labels(aX), aXv, ayv, perm)} :
             /\ fits' = fits + 1
             /\ op' = "fit"
             /\ step' = "none"
             /\ UNCHANGED object
             /\ IF AssertHolds(r.X_valid, r.y_valid)
                THEN /\ pc' = "loop"
                     /\ i' = 0
                     /\ X' = Some(r.X) /\ y' = Some(r.y)
                     /\ X_train' = Some(r.X_train) /\ y_train' = Some(r.y_train)
                     /\ X_valid' = r.X_valid /\ y_valid' = r.y_valid
                     /\ outcome' = "running"
                     /\ call' = [X_valid |-> aXv, y_valid |-> ayv,
                                 len |-> Len(scores_), walks |-> walker.walks,
                                 entered |-> TRUE, trained |-> 0, failed |-> 0]
                ELSE /\ pc' = "idle"
                     /\ DropFrame
                     /\ outcome' = "AssertionError"
                     /\ call' = [X_valid |-> aXv, y_valid |-> ayv,
                                 len |-> Len(scores_), walks |-> walker.walks,
                                 entered |-> FALSE, trained |-> 0, failed |-> 0]

\* a fit call on a non-empty X, with or without explicit validation data
Fit == \E n \in 1..MaxRows : \E a \in ValidArgs : FitBegin(Rows(n), a[1], a[2])

\* a fit call that leaves the validation data to the ratio
FitSplit == \E n \in 0..SplitRows : FitBegin(Rows(n), None, None)

\* fit, lines 107-108: wl.walk(); code = as_str(wl.terminals)
Walk(t) == [walks |-> walker.walks + 1, terminals |-> t]

\* the loop has an iteration left (the walker's counter is capped at MaxWalks)
InLoop == pc = "loop" /\ ~LoopDone(i, nb_iter) /\ walker.walks < MaxWalks

\* line 109 raises: eval(code) is outside the try, the exception leaves fit
IterConstructFails ==
    /\ InLoop
    /\ \E t \in Derivations : walker' = Walk(t)
    /\ pc' = "idle"
    /\ DropFrame
    /\ outcome' = "Exception"
    /\ step' = "construct_failed"
    /\ call' = [call EXCEPT !.failed = @ + 1]
    /\ UNCHANGED <<nb_iter, valid_ratio, estimators_, scores_, codes_,
                   best_score_, best_estimator_, best_estimator_code_, op, fits>>

\* lines 110-116: clf.fit raises, the handler continues with the next iteration
IterTrainFails ==
    /\ InLoop
    /\ \E t \in Derivations : walker' = Walk(t)
    /\ i' = i + 1
    /\ step' = "train_failed"
    /\ call' = [call EXCEPT !.failed = @ + 1]
    /\ UNCHANGED <<nb_iter, valid_ratio, estimators_, scores_, codes_,
                   best_score_, best_estimator_, best_estimator_code_,
                   pc, X, y, X_train, y_train, X_valid, y_valid, op, outcome, fits>>

\* line 117 raises: clf.predict or self.score fails, the exception leaves fit
IterScoreFails ==
    /\ InLoop
    /\ \E t \in Derivations : walker' = Walk(t)
    /\ pc' = "idle"
    /\ DropFrame
    /\ outcome' = "Exception"
    /\ step' = "score_failed"
    /\ call' = [call EXCEPT !.trained = @ + 1]
    /\ UNCHANGED <<nb_iter, valid_ratio, estimators_, scores_, codes_,
                   best_score_, best_estimator_, best_estimator_code_, op, fits>>

\* lines 107-124: the candidate is built, trained, scored and appended
IterOk ==
    /\ InLoop
    /\ \E t \in Derivations, score \in Scores :
         LET code == as_str(t)
             clf  == [id |-> walker.walks + 1, code |-> code]
         IN  /\ walker' = Walk(t)
             /\ codes_' = append(codes_, code)
             /\ estimators_' = append(estimators_, clf)
             /\ scores_' = append(scores_, score)
    /\ i' = i + 1
    /\ step' = "scored"
    /\ call' = [call EXCEPT !.trained = @ + 1]
    /\ UNCHANGED <<nb_iter, valid_ratio,
                   best_score_, best_estimator_, best_estimator_code_,
                   pc, X, y, X_train, y_train, X_valid, y_valid, op, outcome, fits>>

\* lines 126-134: selection of the best candidate, return self
FitSelect ==
    /\ pc = "loop"
    /\ LoopDone(i, nb_iter)
    /\ IF Len(scores_) # 0
       THEN LET idx == argmax(scores_)
            IN  /\ best_score_' = Some(scores_[idx])
                /\ best_estimator_' = Some(estimators_[idx])
                /\ best_estimator_code_' = Some(codes_[idx])
       ELSE UNCHANGED <<best_score_, best_estimator_, best_estimator_code_>>
    /\ pc' = "idle"
    /\ DropFrame
    /\ outcome' = "returned"
    /\ UNCHANGED <<nb_iter, valid_ratio, walker, estimators_, scores_, codes_,
                   op, call, step, fits>>

\* a call on self.best_estimator_: None has no such attribute
Delegate(name) ==
    /\ pc = "idle"
    /\ op' = name
    /\ outcome' = IF best_estimator_ = None THEN "AttributeError" ELSE "returned"
    /\ UNCHANGED <<object, pc, frame, call, step, fits>>

\* lines 136-137
Predict == Delegate("predict")

\* lines 139-140
PredictProba == Delegate("predict_proba")

Next ==
    \/ Fit
    \/ IterConstructFails
    \/ IterTrainFails
    \/ IterScoreFails
    \/ IterOk
    \/ FitSelect
    \/ Predict
    \/ PredictProba

Spec == Init /\ [][Next]_vars

\* The data resolution alone: no iterations, every ratio, larger inputs.
InitSplit == InitWith({0}, Ratios)

NextSplit ==
    \/ FitSplit
    \/ FitSelect

SpecSplit == InitSplit /\ [][NextSplit]_vars

\* ================================================================ properties
IsPrefix(a, b) == Len(a) <= Len(b) /\ SubSeq(b, 1, Len(a)) = a

\* a fit call has ended, by return or by an exception of the loop
FitEnded == op = "fit" /\ pc = "idle" /\ call.entered
FitReturned == op = "fit" /\ outcome = "returned"

NoBest == best_score_ = None /\ best_estimator_ = None /\ best_estimator_code_ = None

\* the best-* fields hold the entry at index idx
BestIs(idx) ==
    /\ best_score_ = Some(scores_[idx])
    /\ best_estimator_ = Some(estimators_[idx])
    /\ best_estimator_code_ = Some(codes_[idx])

\* idx is the first index of the largest score
FirstMax(idx) ==
    /\ \A k \in 1..Len(scores_) : scores_[k] <= scores_[idx]
    /\ \A k \in 1..(idx - 1) : scores_[k] < scores_[idx]

\* C1: an iteration whose construction or training failed appends nothing,
\* leaves the call running (or returned) and never ends fit by an exception.
C1_FailureRecoveredLocally ==
    (op = "fit" /\ step \in {"construct_failed", "train_failed"})
        => /\ outcome \in {"running", "returned"}
           /\ Len(scores_) <= call.len + call.trained

\* C2: after a fit call that returned with a non-empty candidate sequence,
\* best_score_ is the largest score, best_estimator_ and best_estimator_code_
\* are the entries at the same index, and that index is the first maximum.
C2_BestIsFirstMax ==
    (FitReturned /\ Len(scores_) > 0)
        => \E idx \in 1..Len(scores_) : BestIs(idx) /\ FirstMax(idx)

C2_Witness ==
    /\ FitReturned
    /\ Len(scores_) >= 3
    /\ scores_[1] < scores_[2]
    /\ scores_[2] = scores_[3]
    /\ codes_[2] # codes_[3]
    /\ BestIs(2)

\* every iteration of the ended call constructed and trained its candidate
AllTrained == call.trained = nb_iter /\ call.failed = 0

\* C3 (as stated): after any fit call in which all nb_iter candidates were
\* constructed and trained, the candidate sequence has length nb_iter.
C3_LengthIsNbIter ==
    (FitReturned /\ AllTrained)
        => /\ Len(codes_) = nb_iter
           /\ Len(estimators_) = nb_iter
           /\ Len(scores_) = nb_iter

\* C3 (amended): such a call leaves the candidate sequence exactly nb_iter
\* entries longer than it was when the call began.
C3_LengthGrowsByNbIter ==
    (FitReturned /\ AllTrained)
        => /\ Len(codes_) = call.len + nb_iter
           /\ Len(estimators_) = call.len + nb_iter
           /\ Len(scores_) = call.len + nb_iter

C3_Witness ==
    /\ FitReturned /\ AllTrained
    /\ nb_iter >= 2
    /\ call.len >= 2
    /\ fits >= 2

\* C4: a fit call in which every iteration failed returns normally, with an
\* empty candidate sequence and the best-* fields unset.
C4_AllFailLeavesUnset ==
    (FitEnded /\ call.failed = nb_iter /\ nb_iter > 0)
        => /\ outcome = "returned"
           /\ Len(codes_) = 0 /\ Len(estimators_) = 0 /\ Len(scores_) = 0
           /\ NoBest

\* the exact integer part of n * d, d taken at its exact value
ExactFloor(n, d) ==
    LET prod == MulBits(d, n)
    IN  IF d.exp >= 0 THEN BitsNat([j \in 1..d.exp |-> 0] \o prod)
        ELSE IF -d.exp >= Len(prod) THEN 0
        ELSE BitsNat(SubSeq(prod, 1 - d.exp, Len(prod)))

\* d <= 1.0
AtMostOne(d) == d.exp < -52 \/ d = Ratio_1_0 \/ ~Positive(d)

\* fit is past the ratio-based split (no explicit validation data, ratio > 0)
SplitDone ==
    /\ pc = "loop"
    /\ call.X_valid = None /\ call.y_valid = None
    /\ Positive(valid_ratio)

\* train then validation is the shuffled input, row for row
Partition ==
    /\ X_train.value \o X_valid.value = X.value
    /\ y_train.value \o y_valid.value = y.value
    /\ Len(X_train.value) = Len(y_train.value)
    /\ \A k \in 1..Len(X.value) : y.value[k] = LabelOf(X.value[k])
    /\ {X.value[k] : k \in 1..Len(X.value)} = 1..Len(X.value)

\* C5 (as stated): for every ratio r > 0 the validation part has exactly
\* floor(r * total_rows) rows, and train and validation partition the
\* shuffled input.
C5_ValidSizeIsFloor ==
    SplitDone
        => /\ Len(X_valid.value) = ExactFloor(Len(X.value), valid_ratio)
           /\ Partition

\* C5 (amended): train and validation partition the shuffled input for every
\* ratio r > 0; for r <= 1 the validation part has int(total_rows * r) rows,
\* the product being the rounded double-precision one.
C5_SplitPartitions ==
    SplitDone
        => /\ Partition
           /\ AtMostOne(valid_ratio)
                => Len(X_valid.value) = IntOfProduct(Len(X.value), valid_ratio)

C5_Witness ==
    /\ SplitDone
    /\ valid_ratio = Ratio_0_6
    /\ Len(X.value) = 5
    /\ X.value # Rows(5)
    /\ Len(X_train.value) = 2
    /\ Len(X_valid.value) = 3

\* C6: whenever a candidate has been scored, the validation set it was
\* scored on is non-empty.
C6_ScoredOnNonEmpty ==
    (pc = "loop" /\ step = "scored")
        => Len(X_valid.value) > 0 /\ Len(y_valid.value) > 0

\* C7: a fit call given exactly one of X_valid and y_valid ends at once with
\* the assertion failure; the walker, the candidate sequence and the best-*
\* fields are as before the call.
C7_IncompleteValidationAborts ==
    [][ (fits' = fits + 1 /\ ((call'.X_valid = None) # (call'.y_valid = None)))
          => /\ outcome' = "AssertionError"
             /\ pc' = "idle"
             /\ UNCHANGED <<walker, estimators_, scores_, codes_,
                            best_score_, best_estimator_, best_estimator_code_>> ]_vars

C7_Witness ==
    /\ op = "fit"
    /\ outcome = "AssertionError"
    /\ call.X_valid # None /\ call.y_valid = None
    /\ Len(scores_) > 0
    /\ best_score_ # None
    /\ walker.walks > 0

\* C8: whenever no fit call is in progress, the best-* fields are unset
\* exactly when the candidate sequence is empty, and otherwise hold its
\* maximum-score entry.
C8_BestDerivedFromSequence ==
    pc = "idle"
        => IF Len(scores_) = 0 THEN NoBest
           ELSE \E idx \in 1..Len(scores_) : BestIs(idx) /\ FirstMax(idx)

\* C9: a fit call that passed the data resolution has advanced the walker
\* exactly nb_iter times and run nb_iter iterations when it ends, and has
\* appended at most nb_iter candidates.
C9_ExactlyNbIterWalks ==
    FitEnded
        => /\ walker.walks = call.walks + nb_iter
           /\ call.trained + call.failed = nb_iter
           /\ Len(scores_) <= call.len + nb_iter

\* C10: every step leaves codes_, estimators_ and scores_ as prefixes of
\* their new values; an iteration that scored its candidate adds exactly one
\* entry to each; predict and predict_proba change none of them.
C10_AppendOnly ==
    [][ /\ IsPrefix(codes_, codes_')
        /\ IsPrefix(estimators_, estimators_')
        /\ IsPrefix(scores_, scores_')
        /\ (walker' # walker /\ step' = "scored")
             => /\ Len(codes_') = Len(codes_) + 1
                /\ Len(estimators_') = Len(estimators_) + 1
                /\ Len(scores_') = Len(scores_) + 1
        /\ (pc = "idle" /\ fits' = fits)
             => UNCHANGED <<codes_, estimators_, scores_>> ]_vars

C10_Witness ==
    /\ op \in {"predict", "predict_proba"}
    /\ fits >= 2
    /\ call.len >= 1
    /\ Len(codes_) > call.len
    /\ codes_[1] # codes_[Len(codes_)]

====
